---------------------------- MODULE Spec2Model ----------------------------
(***************************************************************************)
(* CHIP-8 emulation core of rust-chip-8-emulator: the CPU aggregate        *)
(* (src/src/cpu/mod.rs), its Display (src/src/cpu/display.rs) and its      *)
(* Keyboard (src/src/cpu/keyboard.rs), driven by the host as in            *)
(* src/src/main.rs: new, reset, load_rom, then key events, execute_cycle   *)
(* and decrement_timers.                                                   *)
(*                                                                         *)
(* A panic of the Rust program (index or slice out of range, arithmetic    *)
(* overflow in a build with overflow checks) is recorded in `fault`; the   *)
(* state keeps whatever the handler had already written before it.         *)
(***************************************************************************)
EXTENDS Integers, Sequences, FiniteSets, TLC

VARIABLES memory, V, I, DT, ST, PC, SP, stack, keys, screen,
          host, fault, opcode, vx, vy, rom

vars == <<memory, V, I, DT, ST, PC, SP, stack, keys, screen,
          host, fault, opcode, vx, vy, rom>>

----------------------------------------------------------------------------
(* Sizes fixed by the program.                                             *)

MEM_SIZE == 4096
NUM_REGS == 16
STACK_SIZE == 16
NUM_KEYS == 16
WIDTH == 64
HEIGHT == 32
BYTE_WIDTH == 8
PROGRAM_START == 512
FONT_SIZE == 80
VF == 15

(* Value of `opcode` while no execute_cycle has run since construction or  *)
(* reset.                                                                  *)
NoOpcode == 65536

FONT_SET ==
    << 240, 144, 144, 144, 240,
        32,  96,  32,  32, 112,
       240,  16, 240, 128, 240,
       240,  16, 240,  16, 240,
       144, 144, 240,  16,  16,
       240, 128, 240,  16, 240,
       240, 128, 240, 144, 240,
       240,  16,  32,  64,  64,
       240, 144, 240, 144, 240,
       240, 144, 240,  16, 240,
       240, 144, 240, 144, 144,
       224, 144, 224, 144, 224,
       240, 128, 128, 128, 240,
       224, 144, 144, 144, 224,
       240, 128, 240, 128, 240,
       240, 128, 240, 128, 128 >>

----------------------------------------------------------------------------
(* Machine arithmetic on u8 / u16 values.                                  *)

Pow2(n) == 2^n

(* Bitwise operations on naturals, lowest bit first.                       *)
RECURSIVE BitAnd(_, _)
BitAnd(a, b) ==
    IF a = 0 \/ b = 0 THEN 0
    ELSE (a % 2) * (b % 2) + 2 * BitAnd(a \div 2, b \div 2)

RECURSIVE BitOr(_, _)
BitOr(a, b) ==
    IF a = 0 THEN b
    ELSE IF b = 0 THEN a
    ELSE (IF (a % 2) + (b % 2) > 0 THEN 1 ELSE 0) + 2 * BitOr(a \div 2, b \div 2)

RECURSIVE BitXor(_, _)
BitXor(a, b) ==
    IF a = 0 THEN b
    ELSE IF b = 0 THEN a
    ELSE (((a % 2) + (b % 2)) % 2) + 2 * BitXor(a \div 2, b \div 2)

Shr(a, k) == a \div Pow2(k)
Shl8(a, k) == (a * Pow2(k)) % 256

WrappingAdd8(a, b) == (a + b) % 256
WrappingSub8(a, b) == (a - b + 256) % 256
OverflowingAdd8(a, b) == [result |-> WrappingAdd8(a, b), overflow |-> a + b > 255]
OverflowingSub8(a, b) == [result |-> WrappingSub8(a, b), overflow |-> a < b]

BoolAsU8(b) == IF b THEN 1 ELSE 0

----------------------------------------------------------------------------
(* The CPU aggregate as one record, so that a handler is a function from   *)
(* machine state to machine state.                                         *)

Machine ==
    [memory |-> memory, V |-> V, I |-> I, DT |-> DT, ST |-> ST, PC |-> PC,
     SP |-> SP, stack |-> stack, keys |-> keys, screen |-> screen,
     fault |-> fault]

(* memory ([u8; 4096]) and screen ([u8; 2048]) are arrays of bytes that   *)
(* are zero almost everywhere.  They are kept as the finite map of their   *)
(* non-zero cells: Get reads a cell of the array, Put writes one.  Index   *)
(* checks are not part of Get and Put; every handler states its own.       *)
Zeroed == << >>
Get(arr, i) == IF i \in DOMAIN arr THEN arr[i] ELSE 0
Put(arr, i, v) ==
    IF v = 0
    THEN IF i \in DOMAIN arr THEN [j \in DOMAIN arr \ {i} |-> arr[j]] @@ Zeroed
         ELSE arr
    ELSE IF i \in DOMAIN arr THEN [arr EXCEPT ![i] = v]
         ELSE (i :> v) @@ arr

(* The array that holds seq[k + 1] at base + k and arr elsewhere           *)
(* (copy_from_slice onto arr[base .. base + Len(seq)]).                    *)
CopyFromSlice(arr, base, seq) ==
    LET covered == base .. (base + Len(seq) - 1)
        value(j) == IF j \in covered THEN seq[j - base + 1] ELSE arr[j]
    IN  [j \in { k \in DOMAIN arr \cup covered : value(k) # 0 } |-> value(j)]
          @@ Zeroed

(* The process panics: nothing more runs, what was written stays written.  *)
Panic(s) == [s EXCEPT !.fault = TRUE]

BlankScreen == Zeroed
AllKeysUp   == [k \in 0 .. (NUM_KEYS - 1) |-> FALSE]

----------------------------------------------------------------------------
(* Display                                                                 *)

byte_index_Masked(byte, index) == BitAnd(byte, Pow2(index))

byte_index(byte, index) == Shr(BitAnd(byte, Pow2(index)), index)

PlotPixel_OrPlot(d, byte, r, bit_index, x, y) ==
    LET row == ((y + r) * WIDTH) % (HEIGHT * WIDTH)
        col == (x + bit_index) % WIDTH
        pixel == byte_index(byte, BYTE_WIDTH - bit_index - 1)
        screen_index == row + col
        after == BitOr(Get(d.screen, screen_index), pixel)
    IN  [screen |-> Put(d.screen, screen_index, after),
         res    |-> d.res \/ (after = 0)]

PlotPixel_LinearWrap(d, byte, r, bit_index, x, y) ==
    LET pixel == byte_index(byte, BYTE_WIDTH - bit_index - 1)
        screen_index == ((y + r) * WIDTH + x + bit_index) % (HEIGHT * WIDTH)
        after == BitXor(Get(d.screen, screen_index), pixel)
    IN  [screen |-> Put(d.screen, screen_index, after),
         res    |-> d.res \/ (after = 0)]

(* One iteration of the inner loop of draw_sprite: d is (screen, res).     *)
PlotPixel(d, byte, r, bit_index, x, y) ==
    LET row == ((y + r) * WIDTH) % (HEIGHT * WIDTH)
        col == (x + bit_index) % WIDTH
        pixel == byte_index(byte, BYTE_WIDTH - bit_index - 1)
        screen_index == row + col
        after == BitXor(Get(d.screen, screen_index), pixel)
    IN  [screen |-> Put(d.screen, screen_index, after),
         res    |-> d.res \/ (after = 0)]

(* The inner loop of draw_sprite, bits bit_index .. 7 of one sprite row,   *)
(* and the outer loop, rows r .. n - 1.  The conjunct on d.res holds of    *)
(* every d; it makes the evaluator finish one iteration before it starts   *)
(* the next.                                                               *)
RECURSIVE PlotRow(_, _, _, _, _, _)
PlotRow(d, byte, r, x, y, bit_index) ==
    IF d.res \in BOOLEAN /\ bit_index < BYTE_WIDTH
    THEN PlotRow(PlotPixel(d, byte, r, bit_index, x, y), byte, r, x, y, bit_index + 1)
    ELSE d

RECURSIVE DrawLoop(_, _, _, _, _, _, _)
DrawLoop(d, mem, n, addr, x, y, r) ==
    IF d.res \in BOOLEAN /\ r < n
    THEN DrawLoop(PlotRow(d, Get(mem, addr + r), r, x, y, 0), mem, n, addr, x, y, r + 1)
    ELSE d

(* draw_sprite on a valid slice memory[addr .. addr+n).                    *)
draw_sprite(scr, mem, n, addr, x, y) ==
    DrawLoop([screen |-> scr, res |-> FALSE], mem, n, addr, x, y, 0)

cls(s) == [s EXCEPT !.screen = BlankScreen]

----------------------------------------------------------------------------
(* Keyboard                                                                *)

key_pressed(s, index) == s.keys[index]

----------------------------------------------------------------------------
(* Instruction handlers: s is the machine after `self.PC += 2`.            *)
(* checked = the build traps arithmetic overflow (overflow-checks on).     *)

RET_ReadBeforeDecrement(s, checked) ==
    IF s.SP = 0 \/ s.SP >= STACK_SIZE THEN Panic(s)
    ELSE [s EXCEPT !.PC = s.stack[s.SP], !.SP = s.SP - 1]

RET_WrappingSP(s, checked) ==
    LET sp == (s.SP + STACK_SIZE - 1) % STACK_SIZE
    IN  [s EXCEPT !.SP = sp, !.PC = s.stack[sp]]

RET(s, checked) ==
    IF s.SP = 0
    THEN IF checked THEN Panic(s) ELSE Panic([s EXCEPT !.SP = 255])
    ELSE IF s.SP - 1 >= STACK_SIZE THEN Panic([s EXCEPT !.SP = s.SP - 1])
    ELSE [s EXCEPT !.SP = s.SP - 1, !.PC = s.stack[s.SP - 1]]

JP(s, nnn) == [s EXCEPT !.PC = nnn]

CALL_Unchecked(s, nnn) ==
    [s EXCEPT !.stack = IF s.SP < STACK_SIZE THEN [@ EXCEPT ![s.SP] = s.PC] ELSE @,
              !.SP = s.SP + 1, !.PC = nnn]

CALL(s, nnn) ==
    IF s.SP >= STACK_SIZE THEN Panic(s)
    ELSE [s EXCEPT !.stack[s.SP] = s.PC, !.SP = s.SP + 1, !.PC = nnn]

SE_Vx_byte(s, a, kk)  == IF a = kk THEN [s EXCEPT !.PC = s.PC + 2] ELSE s
SNE_Vx_byte(s, a, kk) == IF a # kk THEN [s EXCEPT !.PC = s.PC + 2] ELSE s
SE_Vx_Vy(s, a, b)     == IF a = b THEN [s EXCEPT !.PC = s.PC + 2] ELSE s
SNE_Vx_Vy(s, a, b)    == IF a = b THEN [s EXCEPT !.PC = s.PC + 2] ELSE s

LD_Vx_byte(s, x, kk)  == [s EXCEPT !.V[x] = kk]
(* ADD Vx,byte with a trapping `+=` in place of wrapping_add.               *)
ADD_Vx_byte_Trapping(s, x, a, kk) ==
    IF a + kk > 255 THEN Panic(s) ELSE [s EXCEPT !.V[x] = a + kk]

ADD_Vx_byte(s, x, a, kk) == [s EXCEPT !.V[x] = WrappingAdd8(a, kk)]

LD_Vx_Vy(s, x, b)  == [s EXCEPT !.V[x] = b]
OR_Vx_Vy(s, x, b)  == [s EXCEPT !.V[x] = BitOr(s.V[x], b)]
AND_Vx_Vy(s, x, b) == [s EXCEPT !.V[x] = BitAnd(s.V[x], b)]
XOR_Vx_Vy(s, x, b) == [s EXCEPT !.V[x] = BitXor(s.V[x], b)]

(* Two assignments in program order: V[0xF] first, V[x] second.            *)
SetFlagThenVx(s, x, flag, result) ==
    [s EXCEPT !.V = [[s.V EXCEPT ![VF] = flag] EXCEPT ![x] = result]]

(* ADD Vx,Vy with the carry tested on the truncated sum.                   *)
ADD_Vx_Vy_CarryFromResult(s, x, a, b) ==
    LET r == OverflowingAdd8(a, b)
    IN  SetFlagThenVx(s, x, IF r.result > 255 THEN 1 ELSE 0, r.result)

ADD_Vx_Vy(s, x, a, b) ==
    LET r == OverflowingAdd8(a, b)
    IN  SetFlagThenVx(s, x, IF r.overflow THEN 1 ELSE 0, r.result)

SUB_Vx_Vy(s, x, a, b) ==
    LET r == OverflowingSub8(a, b)
    IN  SetFlagThenVx(s, x, IF r.overflow THEN 1 ELSE 0, r.result)

(* SHR Vx with the flag taken after the shift.                             *)
SHR_Vx_FlagAfterShift(s, x, a) ==
    LET s1 == [s EXCEPT !.V[x] = Shr(s.V[x], 1)]
    IN  [s1 EXCEPT !.V[VF] = BitAnd(s1.V[x], 1)]

SHR_Vx(s, x, a) ==
    LET s1 == [s EXCEPT !.V[VF] = BitAnd(a, 1)]
    IN  [s1 EXCEPT !.V[x] = Shr(s1.V[x], 1)]

SUBN_Vx_Vy(s, x, a, b) ==
    LET r == OverflowingSub8(b, a)
    IN  SetFlagThenVx(s, x, IF r.overflow THEN 1 ELSE 0, r.result)

SHL_Vx(s, x, a) ==
    LET s1 == [s EXCEPT !.V[VF] = Shr(BitAnd(a, 128), 7)]
    IN  [s1 EXCEPT !.V[x] = Shl8(s1.V[x], 1)]

LD_I_addr(s, nnn) == [s EXCEPT !.I = nnn]
JP_V0_addr(s, nnn) == [s EXCEPT !.PC = s.V[0] + nnn]
RND_Vx_byte(s, x, kk, random_number) == [s EXCEPT !.V[x] = BitAnd(random_number, kk)]

DRW(s, n, a, b) ==
    IF s.I + n > MEM_SIZE THEN Panic(s)
    ELSE LET d == draw_sprite(s.screen, s.memory, n, s.I, a, b)
         IN  [s EXCEPT !.screen = d.screen, !.V[VF] = BoolAsU8(d.res)]

SKP_Vx(s, a) ==
    IF a >= NUM_KEYS THEN Panic(s)
    ELSE [s EXCEPT !.PC = s.PC + (IF key_pressed(s, a) THEN 2 ELSE 0)]

SKNP_Vx(s, a) ==
    IF a >= NUM_KEYS THEN Panic(s)
    ELSE [s EXCEPT !.PC = s.PC + (IF ~key_pressed(s, a) THEN 2 ELSE 0)]

LD_Vx_DT_Consuming(s, x) == [s EXCEPT !.V[x] = s.DT % 256, !.DT = 0]

LD_Vx_DT(s, x) == [s EXCEPT !.V[x] = s.DT % 256]

(* The scan of the key-wait handler, keys k .. 15.                         *)
RECURSIVE KeyScan(_, _, _)
KeyScan(s, x, k) ==
    IF k = NUM_KEYS THEN s
    ELSE IF s.keys[k]
         THEN KeyScan([s EXCEPT !.V[x] = BoolAsU8(s.keys[k]), !.PC = s.PC + 2],
                      x, k + 1)
         ELSE KeyScan(s, x, k + 1)

LD_Vx_K(s, x) == KeyScan([s EXCEPT !.PC = s.PC - 2], x, 0)

LD_DT_Vx(s, a) == [s EXCEPT !.DT = a]
LD_ST_Vx(s, a) == [s EXCEPT !.ST = a]

ADD_I_Vx(s, a, checked) ==
    IF s.I + a > 65535
    THEN IF checked THEN Panic(s) ELSE [s EXCEPT !.I = (s.I + a) % 65536]
    ELSE [s EXCEPT !.I = s.I + a]

LD_F_Vx_FourBytes(s, a, checked) == [s EXCEPT !.I = a * 4]

LD_F_Vx(s, a, checked) ==
    IF a * 5 > 255
    THEN IF checked THEN Panic(s) ELSE [s EXCEPT !.I = (a * 5) % 256]
    ELSE [s EXCEPT !.I = a * 5]

LD_B_Vx_TensUnreduced(s, a) ==
    IF s.I + 2 >= MEM_SIZE THEN Panic(s)
    ELSE [s EXCEPT !.memory =
            Put(Put(Put(s.memory, s.I, (a \div 100) % 10), s.I + 1, a \div 10),
                s.I + 2, a % 10)]

(* Three indexed stores in program order; the first index out of range     *)
(* panics after the earlier stores are done.                               *)
LD_B_Vx(s, a) ==
    LET hundreds == (a \div 100) % 10
        tens     == (a \div 10) % 10
        ones     == a % 10
    IN  IF s.I >= MEM_SIZE THEN Panic(s)
        ELSE LET s1 == [s EXCEPT !.memory = Put(s.memory, s.I, hundreds)]
             IN  IF s.I + 1 >= MEM_SIZE THEN Panic(s1)
                 ELSE LET s2 == [s1 EXCEPT !.memory = Put(s1.memory, s.I + 1, tens)]
                      IN  IF s.I + 2 >= MEM_SIZE THEN Panic(s2)
                          ELSE [s2 EXCEPT !.memory = Put(s2.memory, s.I + 2, ones)]

LD_I_Vx(s, x) ==
    IF s.I + x + 1 > MEM_SIZE THEN Panic(s)
    ELSE [s EXCEPT !.memory =
                     CopyFromSlice(s.memory, s.I, [k \in 1 .. (x + 1) |-> s.V[k - 1]])]

LD_Vx_I_Exclusive(s, x) ==
    IF s.I + x + 1 > MEM_SIZE THEN Panic(s)
    ELSE [s EXCEPT !.V = [r \in 0 .. (NUM_REGS - 1) |->
                            IF r < x THEN Get(s.memory, s.I + r) ELSE s.V[r]]]

LD_Vx_I(s, x) ==
    IF s.I + x + 1 > MEM_SIZE THEN Panic(s)
    ELSE [s EXCEPT !.V = [r \in 0 .. (NUM_REGS - 1) |->
                            IF r <= x THEN Get(s.memory, s.I + r) ELSE s.V[r]]]

----------------------------------------------------------------------------
(* Decoding and dispatch                                                   *)

Field_nnn(op) == op % 4096
Field_n(op)   == op % 16
Field_x(op)   == (op \div 256) % 16
Field_y(op)   == (op \div 16) % 16
Field_kk(op)  == op % 256
Family(op)    == op \div 4096

ALU(s, op, a, b) ==
    LET n == Field_n(op)
        x == Field_x(op)
    IN  CASE n = 0  -> LD_Vx_Vy(s, x, b)
          [] n = 1  -> OR_Vx_Vy(s, x, b)
          [] n = 2  -> AND_Vx_Vy(s, x, b)
          [] n = 3  -> XOR_Vx_Vy(s, x, b)
          [] n = 4  -> ADD_Vx_Vy(s, x, a, b)
          [] n = 5  -> SUB_Vx_Vy(s, x, a, b)
          [] n = 6  -> SHR_Vx(s, x, a)
          [] n = 7  -> SUBN_Vx_Vy(s, x, a, b)
          [] n = 14 -> SHL_Vx(s, x, a)
          [] OTHER  -> s

(* The low byte that selects the key-wait handler in the F family.         *)
KEY_WAIT_KK == 8

KeyFamily(s, op, a) ==
    LET kk == Field_kk(op)
    IN  CASE kk = 158 -> SKP_Vx(s, a)
          [] kk = 161 -> SKNP_Vx(s, a)
          [] OTHER    -> s

MiscFamily(s, op, a, checked) ==
    LET kk == Field_kk(op)
        x  == Field_x(op)
    IN  CASE kk = 7           -> LD_Vx_DT(s, x)
          [] kk = KEY_WAIT_KK -> LD_Vx_K(s, x)
          [] kk = 21          -> LD_DT_Vx(s, a)
          [] kk = 24          -> LD_ST_Vx(s, a)
          [] kk = 30          -> ADD_I_Vx(s, a, checked)
          [] kk = 41          -> LD_F_Vx(s, a, checked)
          [] kk = 51          -> LD_B_Vx(s, a)
          [] kk = 85          -> LD_I_Vx(s, x)
          [] kk = 101         -> LD_Vx_I(s, x)
          [] OTHER            -> s

(* process_opcode: s0 is the machine at entry.                             *)
process_opcode(s0, op, random_number, checked) ==
    LET nnn == Field_nnn(op)
        x   == Field_x(op)
        kk  == Field_kk(op)
        a   == s0.V[Field_x(op)]
        b   == s0.V[Field_y(op)]
        s   == [s0 EXCEPT !.PC = s0.PC + 2]
        f   == Family(op)
    IN  CASE op = 224 -> cls(s)
          [] op = 238 -> RET(s, checked)
          [] f = 1  -> JP(s, nnn)
          [] f = 2  -> CALL(s, nnn)
          [] f = 3  -> SE_Vx_byte(s, a, kk)
          [] f = 4  -> SNE_Vx_byte(s, a, kk)
          [] f = 5  -> SE_Vx_Vy(s, a, b)
          [] f = 6  -> LD_Vx_byte(s, x, kk)
          [] f = 7  -> ADD_Vx_byte(s, x, a, kk)
          [] f = 8  -> ALU(s, op, a, b)
          [] f = 9  -> SNE_Vx_Vy(s, a, b)
          [] f = 10 -> LD_I_addr(s, nnn)
          [] f = 11 -> JP_V0_addr(s, nnn)
          [] f = 12 -> RND_Vx_byte(s, x, kk, random_number)
          [] f = 13 -> DRW(s, Field_n(op), a, b)
          [] f = 14 -> KeyFamily(s, op, a)
          [] f = 15 -> MiscFamily(s, op, a, checked)
          [] OTHER  -> s

(* read_opcode panics on the first index at or past the end of memory.     *)
CanFetch(s) == s.PC + 1 < MEM_SIZE
read_opcode(s) == Get(s.memory, s.PC) * 256 + Get(s.memory, s.PC + 1)

----------------------------------------------------------------------------
(* Programs the host loads.  Each is a sequence of bytes; every program    *)
(* ends in jumps-to-self at the addresses control can reach, so that the   *)
(* machine halts there instead of running through the rest of memory.      *)

Ins(a, b, c, d) == << a * 16 + b, c * 16 + d >>
InsByte(a, b, kk) == << a * 16 + b, kk >>
InsAddr(a, nnn) == << a * 16 + (nnn \div 256), nnn % 256 >>
Halt(addr) == InsAddr(1, addr)

(* Operand values and register pairs (x, y) the programs set up.           *)
ByteSample == {0, 1, 128, 255}
RegPairs == { <<0, 1>>, <<1, 1>>, <<15, 1>>, <<0, 15>>, <<15, 15>> }

(* LD Vx,a ; LD Vy,b ; <instruction under test> ; halt ; halt              *)
TestInstructions(x, y, b) ==
    { Ins(8, x, y, n) : n \in (0 .. 8) \cup {14, 15} }
    \cup { Ins(5, x, y, 0), Ins(9, x, y, 0),
           InsByte(3, x, b), InsByte(4, x, b), InsByte(7, x, b) }

OperandRom(x, y, a, b, t) ==
    InsByte(6, x, a) \o InsByte(6, y, b) \o t
      \o Halt(PROGRAM_START + 6) \o Halt(PROGRAM_START + 8)

(* <<x, y, a, b>>: with x = y the second load decides both operands.       *)
OperandSetups ==
    { <<p[1], p[2], a, b>> : p \in RegPairs, a \in ByteSample, b \in ByteSample }
    \ { <<p[1], p[2], a, b>> : p \in { q \in RegPairs : q[1] = q[2] },
                              a \in ByteSample \ {0}, b \in ByteSample }

OperandRoms ==
    UNION { { OperandRom(u[1], u[2], u[3], u[4], t) :
                t \in TestInstructions(u[1], u[2], u[4]) } :
            u \in OperandSetups }

(* LD V5,0xAA ; <F5kk> ; halts at every address the key scan can leave PC. *)
KeyWaitRoms ==
    { InsByte(6, 5, 170) \o InsByte(15, 5, kk)
        \o Halt(PROGRAM_START + 4) \o Halt(PROGRAM_START + 6)
        \o Halt(PROGRAM_START + 8) \o Halt(PROGRAM_START + 10)
        \o Halt(PROGRAM_START + 12) :
      kk \in {KEY_WAIT_KK, 10} }

(* LD V0,a ; LD V1,b ; two draws LD I,addr ; DRW V0,V1,n ; halt ; sprite   *)
(* data 0xFF 0x0F 0xF0 at SpriteData.                                      *)
SpriteData == PROGRAM_START + 14
Sprites ==
    { <<0, 5>>, <<0, 0>>, <<SpriteData, 1>>, <<SpriteData + 1, 1>>,
      <<SpriteData + 2, 1>>, <<SpriteData, 3>>, <<MEM_SIZE - 1, 2>>, <<0, 8>> }
DrawAt == { <<0, 0>>, <<60, 30>>, <<255, 255>> }

DrawRom(at, s1, s2) ==
    InsByte(6, 0, at[1]) \o InsByte(6, 1, at[2])
      \o InsAddr(10, s1[1]) \o Ins(13, 0, 1, s1[2])
      \o InsAddr(10, s2[1]) \o Ins(13, 0, 1, s2[2])
      \o Halt(PROGRAM_START + 12)
      \o << 255, 15, 240 >>

DrawRoms == { DrawRom(at, s1, s2) : at \in DrawAt, s1 \in Sprites, s2 \in Sprites }

(* Subroutines nested d deep.  Word k of the program (at 0x200 + 2k):      *)
(*   0x200          CALL 0x204        0x202          halt                  *)
(*   0x200 + 4j     CALL 0x204 + 4j   0x202 + 4j     RET     (0 < j < d)   *)
(*   0x200 + 4d     RET                                                    *)
(* so d CALLs run one after another and then d RETs.                       *)
NestWord(d, k) ==
    IF k = 2 * d THEN Ins(0, 0, 14, 14)
    ELSE IF k % 2 = 0 THEN InsAddr(2, PROGRAM_START + 2 * k + 4)
    ELSE IF k = 1 THEN Halt(PROGRAM_START + 2)
    ELSE Ins(0, 0, 14, 14)

NestRom(d) ==
    [i \in 1 .. (4 * d + 2) |-> NestWord(d, (i - 1) \div 2)[((i - 1) % 2) + 1]]

(* Depths up to one more than the stack holds, and a program that returns  *)
(* without having called.                                                  *)
NestDepths == 1 .. (STACK_SIZE + 1)
StackRoms ==
    { NestRom(d) : d \in NestDepths }
    \cup { Ins(0, 0, 14, 14) \o Halt(PROGRAM_START + 2) }

(* Jumps to an odd address (0x203 holds a jump to itself), to the last     *)
(* byte of memory, and to the last word of memory.                         *)
JumpRoms ==
    { InsAddr(1, PROGRAM_START + 3) \o << 0 >> \o InsAddr(1, PROGRAM_START + 3),
      InsAddr(1, MEM_SIZE - 1),
      InsAddr(1, MEM_SIZE - 2) }

(* LD V0,v ; LD I,addr ; LD B,V0 ; halt                                    *)
BcdAddrs == { PROGRAM_START + 8, MEM_SIZE - 3, MEM_SIZE - 2, MEM_SIZE - 1 }
BcdRoms ==
    { InsByte(6, 0, v) \o InsAddr(10, addr) \o InsByte(15, 0, 51)
        \o Halt(PROGRAM_START + 6) :
      v \in ByteSample, addr \in BcdAddrs }

(* LD V0,v ; LD DT,V0 ; LD ST,V0 ; halt                                     *)
MaxTimer == 3
TimerRoms ==
    { InsByte(6, 0, v) \o InsByte(15, 0, 21) \o InsByte(15, 0, 24)
        \o Halt(PROGRAM_START + 6) :
      v \in 0 .. MaxTimer }

(* A program of len bytes: a jump to itself, zeros, and a last byte 0xEE.  *)
(* The longest program that fits, and one byte more.                       *)
SizedRom(len) ==
    [i \in 1 .. len |-> IF i = 1 THEN 18 ELSE IF i = 2 THEN 0
                        ELSE IF i = len THEN 238 ELSE 0]
SizeRoms == { SizedRom(MEM_SIZE - PROGRAM_START),
              SizedRom(MEM_SIZE - PROGRAM_START + 1) }

(* LD V0,x ; LD V1,y ; LD I,a1 ; DRW V0,V1,n1 ; LD I,a2 ; DRW V0,V1,n2 ;   *)
(* DRW V0,V1,n2 ; halt ; sprite data 0xFF 0x0F 0xF0 at RedrawData: the     *)
(* second sprite is drawn twice in a row over the first.                   *)
RedrawData == PROGRAM_START + 16
FirstSprites == { <<0, 5>>, <<0, 0>>, <<RedrawData, 3>> }
SecondSprites == { <<0, 5>>, <<5, 5>>, <<RedrawData, 3>>, <<RedrawData + 1, 1>> }

RedrawRom(at, s1, s2) ==
    InsByte(6, 0, at[1]) \o InsByte(6, 1, at[2])
      \o InsAddr(10, s1[1]) \o Ins(13, 0, 1, s1[2])
      \o InsAddr(10, s2[1]) \o Ins(13, 0, 1, s2[2]) \o Ins(13, 0, 1, s2[2])
      \o Halt(PROGRAM_START + 14)
      \o << 255, 15, 240 >>

RedrawRoms ==
    { RedrawRom(at, s1, s2) : at \in DrawAt, s1 \in FirstSprites, s2 \in SecondSprites }

(* LD I,0 ; DRW V0,V0,5 ; CLS ; halt                                       *)
ClsRom ==
    InsAddr(10, 0) \o Ins(13, 0, 0, 5) \o Ins(0, 0, 14, 0) \o Halt(PROGRAM_START + 6)

(* LD VA,2 ; LD F,VA ; DRW V0,V0,1 and nothing after it.                   *)
GlyphRom == << 106, 2, 250, 41, 208, 1 >>

(* LD V0,v ; LD F,V0 ; halt                                                *)
FontValues == ByteSample \cup { 2, 15, 51, 52 }
FontRoms ==
    { InsByte(6, 0, v) \o InsByte(15, 0, 41) \o Halt(PROGRAM_START + 4) :
      v \in FontValues }

(* LD V0,v ; LD I,addr ; LD B,V0 ; halt, for more values of v.             *)
BcdValues == { 9, 10, 99, 100, 199, 234 }
MoreBcdRoms ==
    { InsByte(6, 0, v) \o InsAddr(10, addr) \o InsByte(15, 0, 51)
        \o Halt(PROGRAM_START + 6) :
      v \in BcdValues, addr \in { PROGRAM_START + 8, MEM_SIZE - 3 } }

(* LD V0,17 ; LD V1,34 ; LD V2,51 ; LD I,addr ; LD [I],Vx ;                *)
(* LD V0,255 ; LD V1,254 ; LD V2,253 ; LD Vx,[I] ; halt                     *)
SavedValues == << 17, 34, 51 >>
ScratchValues == << 255, 254, 253 >>
RegFileRom(x, addr) ==
    InsByte(6, 0, SavedValues[1]) \o InsByte(6, 1, SavedValues[2])
      \o InsByte(6, 2, SavedValues[3])
      \o InsAddr(10, addr) \o InsByte(15, x, 85)
      \o InsByte(6, 0, ScratchValues[1]) \o InsByte(6, 1, ScratchValues[2])
      \o InsByte(6, 2, ScratchValues[3])
      \o InsByte(15, x, 101) \o Halt(PROGRAM_START + 18)

(* I in the middle of memory, with I + x on the last cell, and one past.   *)
RegFileCounts == { 0, 1, 2, 15 }
RegFileRoms ==
    { RegFileRom(x, addr) :
        x \in RegFileCounts,
        addr \in { PROGRAM_START + 256, MEM_SIZE - 16, MEM_SIZE - 15 } }

(* LD V5,0xAA ; <a word outside the instruction set> ; halt ; halt          *)
UnassignedWords ==
    { Ins(0, 1, 2, 3), Ins(0, 0, 14, 1), Ins(0, 0, 0, 0),
      InsByte(14, 5, 0), InsByte(14, 5, 159),
      InsByte(15, 5, 0), InsByte(15, 5, 255), InsByte(15, 5, 102) }
UnassignedRoms ==
    { InsByte(6, 5, 170) \o w \o Halt(PROGRAM_START + 4) \o Halt(PROGRAM_START + 6) :
      w \in UnassignedWords }

(* LD V0,v ; LD DT,V0 ; LD V1,DT ; halt                                    *)
TimerReadRoms ==
    { InsByte(6, 0, v) \o InsByte(15, 0, 21) \o InsByte(15, 1, 7)
        \o Halt(PROGRAM_START + 6) :
      v \in 0 .. MaxTimer }

RomSet ==
    OperandRoms \cup KeyWaitRoms \cup DrawRoms \cup StackRoms \cup JumpRoms
      \cup BcdRoms \cup TimerRoms \cup SizeRoms
      \cup RedrawRoms \cup { ClsRom, GlyphRom } \cup FontRoms \cup MoreBcdRoms
      \cup RegFileRoms \cup UnassignedRoms \cup TimerReadRoms

(* Bytes rand::random::<u8>() may return.                                  *)
RandomBytes == ByteSample

(* Keys the host presses and releases.                                     *)
KeySample == {7, 12}

----------------------------------------------------------------------------
(* Operations                                                              *)

ResetMemory_KeepsProgram == CopyFromSlice(memory, 0, FONT_SET)

(* memory after reset: zeroed, then the font copied to 0 .. 79.             *)
ResetMemory == CopyFromSlice(Zeroed, 0, FONT_SET)

Init ==
    /\ memory = Zeroed
    /\ V = [r \in 0 .. (NUM_REGS - 1) |-> 0]
    /\ I = 0
    /\ DT = 0
    /\ ST = 0
    /\ PC = 0
    /\ SP = 0
    /\ stack = [i \in 0 .. (STACK_SIZE - 1) |-> 0]
    /\ keys = AllKeysUp
    /\ screen = BlankScreen
    /\ host = "new"
    /\ fault = FALSE
    /\ opcode = NoOpcode
    /\ vx = 0
    /\ vy = 0
    /\ rom = << >>

Reset ==
    /\ ~fault
    /\ memory' = ResetMemory
    /\ V' = [r \in 0 .. (NUM_REGS - 1) |-> 0]
    /\ I' = 0
    /\ DT' = 0
    /\ ST' = 0
    /\ PC' = PROGRAM_START
    /\ SP' = 0
    /\ stack' = [i \in 0 .. (STACK_SIZE - 1) |-> 0]
    /\ keys' = AllKeysUp
    /\ screen' = BlankScreen
    /\ host' = "reset"
    /\ opcode' = NoOpcode
    /\ vx' = 0
    /\ vy' = 0
    /\ rom' = << >>
    /\ UNCHANGED fault

RomFits_Always(r) == TRUE

load_rom_FromZero(mem, r) == CopyFromSlice(mem, 0, r)

(* load_rom: the slice memory[0x200 .. 0x200 + len] must exist, or the     *)
(* call panics before it copies anything.                                  *)
RomFits(r) == PROGRAM_START + Len(r) <= MEM_SIZE
load_rom(mem, r) == CopyFromSlice(mem, PROGRAM_START, r)

LoadRom ==
    /\ ~fault
    /\ host = "reset"
    /\ \E r \in RomSet :
         /\ rom' = r
         /\ IF RomFits(r)
            THEN /\ memory' = load_rom(memory, r)
                 /\ host' = "running"
                 /\ UNCHANGED fault
            ELSE /\ fault' = TRUE
                 /\ UNCHANGED <<memory, host>>
    /\ UNCHANGED <<V, I, DT, ST, PC, SP, stack, keys, screen, opcode, vx, vy>>

(* Only RND consumes a random byte; only RET, ADD I,Vx and LD F,Vx hold    *)
(* arithmetic whose overflow the build may or may not trap.                *)
RandomFor(op) == IF Family(op) = 12 THEN RandomBytes ELSE {0}
BuildsFor(op) ==
    IF op = 238 \/ (Family(op) = 15 /\ Field_kk(op) \in {30, 41})
    THEN BOOLEAN ELSE {TRUE}

ExecuteCycle ==
    /\ ~fault
    /\ host = "running"
    /\ IF ~CanFetch(Machine)
       THEN /\ fault' = TRUE
            /\ UNCHANGED <<memory, V, I, DT, ST, PC, SP, stack, keys, screen,
                           opcode, vx, vy>>
       ELSE LET op == read_opcode(Machine)
            IN  \E random_number \in RandomFor(op), checked \in BuildsFor(op) :
                  LET s == process_opcode(Machine, op, random_number, checked)
                  IN  /\ memory' = s.memory
                      /\ V' = s.V
                      /\ I' = s.I
                      /\ DT' = s.DT
                      /\ ST' = s.ST
                      /\ PC' = s.PC
                      /\ SP' = s.SP
                      /\ stack' = s.stack
                      /\ keys' = s.keys
                      /\ screen' = s.screen
                      /\ fault' = s.fault
                      /\ opcode' = op
                      /\ vx' = V[Field_x(op)]
                      /\ vy' = V[Field_y(op)]
    /\ UNCHANGED <<host, rom>>

DecrementTimers_Unclamped ==
    /\ ~fault
    /\ host = "running"
    /\ DT' = (DT + 65535) % 65536
    /\ ST' = (ST + 65535) % 65536
    /\ UNCHANGED <<memory, V, I, PC, SP, stack, keys, screen, host, fault,
                   opcode, vx, vy, rom>>

DecrementTimers ==
    /\ ~fault
    /\ host = "running"
    /\ DT' = IF DT > 0 THEN DT - 1 ELSE DT
    /\ ST' = IF ST > 0 THEN ST - 1 ELSE ST
    /\ UNCHANGED <<memory, V, I, PC, SP, stack, keys, screen, host, fault,
                   opcode, vx, vy, rom>>

KeysDown == { k \in 0 .. (NUM_KEYS - 1) : keys[k] }

KeyDown ==
    /\ ~fault
    /\ \E i \in KeySample :
         keys' = [keys EXCEPT ![i] = TRUE]
    /\ UNCHANGED <<memory, V, I, DT, ST, PC, SP, stack, screen, host, fault,
                   opcode, vx, vy, rom>>

KeyUp_ClearsAll ==
    /\ ~fault
    /\ keys' = AllKeysUp
    /\ UNCHANGED <<memory, V, I, DT, ST, PC, SP, stack, screen, host, fault,
                   opcode, vx, vy, rom>>

KeyUp ==
    /\ ~fault
    /\ \E i \in KeySample : keys' = [keys EXCEPT ![i] = FALSE]
    /\ UNCHANGED <<memory, V, I, DT, ST, PC, SP, stack, screen, host, fault,
                   opcode, vx, vy, rom>>

Next ==
    \/ Reset
    \/ LoadRom
    \/ ExecuteCycle
    \/ DecrementTimers
    \/ KeyDown
    \/ KeyUp

Spec == Init /\ [][Next]_vars

----------------------------------------------------------------------------
(* Vocabulary of the properties                                            *)

(* An execute_cycle has fetched `opcode` since construction or reset.      *)
Fetched == opcode # NoOpcode
X == Field_x(opcode)
Y == Field_y(opcode)
KK == Field_kk(opcode)

(* The instruction an execute_cycle step is about to fetch.                *)
Current == read_opcode(Machine)
(* A step that is one execute_cycle call that fetched an instruction.      *)
Cycle == ExecuteCycle /\ CanFetch(Machine)

IsALU(op, n) == Family(op) = 8 /\ Field_n(op) = n
IsDRW(op) == Family(op) = 13
(* The key-wait instruction: the word 0xFx0A of the instruction set, and   *)
(* the word the program dispatches to its key-wait handler.                *)
IsKeyWait(op) == Family(op) = 15 /\ Field_kk(op) \in {10, KEY_WAIT_KK}

Pixels == 0 .. (WIDTH * HEIGHT - 1)
Highest(S) == CHOOSE k \in S : \A j \in S : j <= k

Carry(a, b) == IF a + b > 255 THEN 1 ELSE 0
NotBorrow(a, b) == IF a >= b THEN 1 ELSE 0

----------------------------------------------------------------------------
(* C1: after every DRW that completes, VF is 1 if and only if some pixel   *)
(* that was 1 before the draw is 0 after it, and is 0 otherwise; a draw    *)
(* onto an all-zero framebuffer therefore leaves VF = 0.                   *)
C1_CollisionIffErasure ==
    [][(Cycle /\ IsDRW(Current) /\ ~fault')
         => (V'[VF] = BoolAsU8(\E i \in Pixels :
                                 Get(screen, i) = 1 /\ Get(screen', i) = 0))]_vars

(* C2: an execute_cycle on the key-wait instruction 0xFx0A with all 16     *)
(* keys up changes neither PC nor registers, memory or framebuffer.        *)
C2_KeyWaitHoldsPC ==
    [][(Cycle /\ Family(Current) = 15 /\ Field_kk(Current) = 10
              /\ KeysDown = {})
         => UNCHANGED <<PC, V, I, memory, screen>>]_vars

(* C3: a key-wait cycle with a non-empty set K of keys down leaves in Vx   *)
(* the index of the highest-indexed key of K.                              *)
C3_KeyWaitStoresHighestKey ==
    [][(Cycle /\ IsKeyWait(Current) /\ KeysDown # {})
         => V'[Field_x(Current)] = Highest(KeysDown)]_vars

(* C4: the key-wait cycle that completes (some key down) advances PC by    *)
(* exactly 2, however many keys are down.                                  *)
C4_KeyWaitAdvancesByTwo ==
    [][(Cycle /\ IsKeyWait(Current) /\ KeysDown # {})
         => PC' = PC + 2]_vars

(* C5: 9xy0 leaves PC = old PC + 4 if Vx # Vy and old PC + 2 otherwise,    *)
(* the opposite of 5xy0 on the same operands.                              *)
C5_SneSkipsIffUnequal ==
    [][(Cycle /\ Family(Current) = 9)
         => PC' = PC + (IF V[Field_x(Current)] # V[Field_y(Current)]
                        THEN 4 ELSE 2)]_vars

(* C6: for x # 0xF, after 8xy5 Vx = (Vx - Vy) mod 256 and VF = 1 exactly   *)
(* when the subtraction does not borrow; after 8xy7 the same with the      *)
(* operands exchanged; both from the operands before the instruction.      *)
C6_SubFlagIsNotBorrow ==
    (Fetched /\ ~fault /\ X # VF) =>
       /\ IsALU(opcode, 5) => (V[X] = (vx - vy) % 256 /\ V[VF] = NotBorrow(vx, vy))
       /\ IsALU(opcode, 7) => (V[X] = (vy - vx) % 256 /\ V[VF] = NotBorrow(vy, vx))

(* C7: after ADD, SUB, SUBN, SHR or SHL with x = 0xF, VF holds the flag    *)
(* of the operands before the instruction, not the result.                 *)
C7_FlagSurvivesWhenXIsVF ==
    (Fetched /\ ~fault /\ X = VF) =>
       /\ IsALU(opcode, 4)  => V[VF] = Carry(vx, vy)
       /\ IsALU(opcode, 5)  => V[VF] = NotBorrow(vx, vy)
       /\ IsALU(opcode, 7)  => V[VF] = NotBorrow(vy, vx)
       /\ IsALU(opcode, 6)  => V[VF] = vx % 2
       /\ IsALU(opcode, 14) => V[VF] = vx \div 128

(* C8: for x # 0xF, after 8xy4 VF = 1 if and only if Vx + Vy > 255 and Vx  *)
(* is (Vx + Vy) mod 256, of the operands before the instruction.           *)
C8_AddCarry ==
    (Fetched /\ IsALU(opcode, 4) /\ X # VF) =>
       /\ ~fault
       /\ V[VF] = Carry(vx, vy)
       /\ V[X] = (vx + vy) % 256

C8_Witness ==
    /\ Fetched /\ IsALU(opcode, 4) /\ X # VF /\ ~fault
    /\ vx + vy > 255 /\ V[VF] = 1 /\ V[X] = vx + vy - 256

(* C9: for x # 0xF, after 8xy6 VF is the lowest bit Vx had and Vx is       *)
(* halved (rounded down); after 8xyE VF is the highest bit Vx had and Vx   *)
(* is doubled mod 256.                                                     *)
C9_ShiftFlags ==
    (Fetched /\ X # VF) =>
       /\ IsALU(opcode, 6)  => (~fault /\ V[VF] = vx % 2 /\ V[X] = vx \div 2)
       /\ IsALU(opcode, 14) => (~fault /\ V[VF] = vx \div 128
                                       /\ V[X] = (2 * vx) % 256)

C9_Witness ==
    /\ Fetched /\ IsALU(opcode, 6) /\ X # VF /\ ~fault
    /\ vx = 255 /\ V[VF] = 1 /\ V[X] = 127

(* C10: 7xkk sets Vx to (Vx + kk) mod 256, never faults, and changes no    *)
(* other register: VF (when x # 0xF) and I keep their values.              *)
C10_AddByteWrapsNoFlag ==
    [][(Cycle /\ Family(Current) = 7)
         => /\ ~fault'
            /\ V' = [V EXCEPT ![Field_x(Current)] =
                                 (V[Field_x(Current)] + Field_kk(Current)) % 256]
            /\ I' = I]_vars

C10_Witness ==
    /\ Fetched /\ Family(opcode) = 7 /\ ~fault /\ X # VF
    /\ vx + KK > 255 /\ V[X] = vx + KK - 256 /\ V[VF] = 255


----------------------------------------------------------------------------
(* Vocabulary of the stack, loader, reset, timer and display properties    *)

ROM_CAPACITY == MEM_SIZE - PROGRAM_START
Addresses == 0 .. (MEM_SIZE - 1)
RET_WORD == 238

(* The loaded program is d nested subroutines, d within the stack's size.  *)
NestRunning ==
    /\ host = "running"
    /\ LET d == (Len(rom) - 2) \div 4
       IN  d \in 1 .. STACK_SIZE /\ rom = NestRom(d)

(* Bit b (0 = most significant) of sprite row r that a draw of n rows from *)
(* addr at (x, y) puts on pixel p, 0 if the sprite does not cover p.        *)
SpriteBit(p, x, y, n, addr) ==
    LET r == ((p \div WIDTH) - y) % HEIGHT
        b == ((p % WIDTH) - x) % WIDTH
    IN  IF r < n /\ b < BYTE_WIDTH
        THEN (Get(memory, addr + r) \div Pow2(BYTE_WIDTH - 1 - b)) % 2
        ELSE 0

----------------------------------------------------------------------------
(* C11: in a program of d <= 16 nested subroutines, every CALL pushes the  *)
(* address after itself and goes one level deeper, every RET pops one      *)
(* level and continues right after the CALL of that level (the CALL made   *)
(* at depth j sits at 0x200 + 4j), and the program is back at depth 0      *)
(* when it reaches the halt after the outermost CALL.                      *)
C11_CallRetLifo ==
    [][(Cycle /\ NestRunning) =>
         /\ ~fault'
         /\ Family(Current) = 2 =>
              /\ SP' = SP + 1
              /\ stack' = [stack EXCEPT ![SP] = PC + 2]
              /\ PC' = Field_nnn(Current)
         /\ Current = RET_WORD =>
              /\ SP >= 1
              /\ SP' = SP - 1
              /\ stack' = stack
              /\ PC' = PROGRAM_START + 4 * SP' + 2
         /\ Family(Current) = 1 => (SP = 0 /\ SP' = 0)]_vars

C11_Witness ==
    /\ rom = NestRom(STACK_SIZE) /\ ~fault
    /\ opcode = RET_WORD /\ SP = 0 /\ PC = PROGRAM_START + 2

(* C12 as stated: in every state reached without a fault, 0 <= SP <= 15.   *)
C12_StackPointerBelow16 ==
    (host = "running" /\ ~fault) => SP \in 0 .. (STACK_SIZE - 1)

(* C12 as amended: in every state reached without a fault, 0 <= SP <= 16;  *)
(* SP counts the return addresses held, and 16 of them fit.                *)
C12_StackPointerAtMost16 ==
    (host = "running" /\ ~fault) => SP \in 0 .. STACK_SIZE

C12_Witness ==
    host = "running" /\ ~fault /\ SP = STACK_SIZE /\ Family(opcode) = 2

(* C13: in every state after reset and load_rom, whatever the program, PC  *)
(* is even and at most 4094.                                               *)
C13_PCEvenAndInRange ==
    (host = "running" /\ ~fault) => (PC % 2 = 0 /\ PC <= MEM_SIZE - 2)

(* C14: an execute_cycle that ends in a fault leaves memory, registers, I, *)
(* PC, SP, stack, timers, framebuffer and keypad as they were before it.   *)
C14_FaultLeavesStateUnchanged ==
    [][(ExecuteCycle /\ fault') =>
         UNCHANGED <<memory, V, I, PC, SP, stack, DT, ST, screen, keys>>]_vars

(* C15: a CALL with 16 return addresses on the stack and a RET with none   *)
(* both end in a fault, and neither changes a stack slot.                  *)
C15_StackOverflowAndUnderflowFault ==
    [][Cycle =>
         /\ (Family(Current) = 2 /\ SP = STACK_SIZE) => (fault' /\ stack' = stack)
         /\ (Current = RET_WORD /\ SP = 0) => (fault' /\ stack' = stack)]_vars

C15_Witness ==
    fault /\ Family(opcode) = 2 /\ SP = STACK_SIZE /\ rom = NestRom(STACK_SIZE + 1)

(* C16: load_rom of a program longer than 3584 bytes faults and leaves     *)
(* memory as it was.                                                       *)
C16_OversizeRomRejected ==
    [][(LoadRom /\ Len(rom') > ROM_CAPACITY) => (fault' /\ memory' = memory)]_vars

C16_Witness ==
    fault /\ Len(rom) = ROM_CAPACITY + 1 /\ memory = ResetMemory

(* C17: load_rom of a program of L <= 3584 bytes puts byte i of it at      *)
(* 0x200 + i, leaves every other memory cell as it was, and changes        *)
(* nothing else of the machine.                                            *)
C17_LoadRomCopiesVerbatim ==
    [][(LoadRom /\ Len(rom') <= ROM_CAPACITY) =>
         /\ ~fault'
         /\ DOMAIN memory' \subseteq Addresses
         /\ \A j \in Addresses :
              Get(memory', j) =
                IF j >= PROGRAM_START /\ j < PROGRAM_START + Len(rom')
                THEN rom'[j - PROGRAM_START + 1]
                ELSE Get(memory, j)
         /\ UNCHANGED <<V, I, DT, ST, PC, SP, stack, keys, screen>>]_vars

C17_Witness ==
    /\ host = "running" /\ ~Fetched /\ Len(rom) = ROM_CAPACITY
    /\ Get(memory, MEM_SIZE - 1) = rom[ROM_CAPACITY] /\ rom[ROM_CAPACITY] # 0
    /\ Get(memory, FONT_SIZE - 1) = FONT_SET[FONT_SIZE]
    /\ Get(memory, PROGRAM_START) = rom[1]

(* C18: after reset, from whatever state, memory holds the font at 0..79   *)
(* and 0 elsewhere, V, I, DT, ST, SP and the stack are 0, PC is 0x200, all *)
(* keys are up and every pixel is 0.                                       *)
C18_ResetIsCanonical ==
    [][Reset =>
         /\ \A j \in 0 .. (FONT_SIZE - 1) : Get(memory', j) = FONT_SET[j + 1]
         /\ \A j \in DOMAIN memory' : j >= FONT_SIZE => memory'[j] = 0
         /\ \A r \in 0 .. (NUM_REGS - 1) : V'[r] = 0
         /\ I' = 0 /\ DT' = 0 /\ ST' = 0 /\ SP' = 0
         /\ \A i \in 0 .. (STACK_SIZE - 1) : stack'[i] = 0
         /\ PC' = PROGRAM_START
         /\ \A k \in 0 .. (NUM_KEYS - 1) : ~keys'[k]
         /\ \A p \in DOMAIN screen' : screen'[p] = 0]_vars

C18_Witness ==
    /\ host = "reset" /\ PC = PROGRAM_START /\ SP = 0
    /\ Get(memory, 0) = FONT_SET[1] /\ Get(memory, PROGRAM_START) = 0

(* C19: a timer tick takes 1 from DT if DT > 0 and leaves it 0 otherwise,  *)
(* and the same for ST; neither goes below 0, and a timer at 0 stays 0.    *)
C19_TimersCountDownToZero ==
    [][DecrementTimers =>
         /\ DT' = (IF DT > 0 THEN DT - 1 ELSE 0)
         /\ ST' = (IF ST > 0 THEN ST - 1 ELSE 0)
         /\ DT' >= 0 /\ ST' >= 0]_vars

C19_Witness ==
    /\ Fetched /\ Family(opcode) = 15 /\ KK = 24 /\ vx = MaxTimer
    /\ DT = 0 /\ ST = 0 /\ ~fault

(* C20: a draw of n rows at (x, y) XORs bit b, most significant first, of  *)
(* row r into the pixel at row (y + r) mod 32, column (x + b) mod 64, and  *)
(* leaves every other pixel as it was.                                     *)
C20_DrawWrapsEachCoordinate ==
    [][(Cycle /\ IsDRW(Current) /\ ~fault') =>
         \A p \in Pixels :
           Get(screen', p) =
             (Get(screen, p)
                + SpriteBit(p, V[Field_x(Current)], V[Field_y(Current)],
                            Field_n(Current), I)) % 2]_vars

C20_Witness ==
    /\ Fetched /\ IsDRW(opcode) /\ ~fault /\ vx = 60 /\ vy = 30
    /\ Get(screen, 30 * WIDTH + 0) = 1 /\ Get(screen, 30 * WIDTH + 63) = 1
    /\ Get(screen, 31 * WIDTH + 3) = 1 /\ Get(screen, 31 * WIDTH + 60) = 0
    /\ Get(screen, 0 * WIDTH + 60) = 1 /\ Get(screen, 0 * WIDTH + 0) = 0


----------------------------------------------------------------------------
(* Vocabulary of the redraw, register-file and decode properties           *)

IsMisc(op, kk) == Family(op) = 15 /\ Field_kk(op) = kk

RedrawRunning == host = "running" /\ Len(rom) = 19 /\ rom \in RedrawRoms
RegFileRunning == host = "running" /\ Len(rom) = 20 /\ rom \in RegFileRoms

(* The address operand of the LD I word at bytes i, i + 1 of the program.   *)
RomAddr(i) == (rom[i] % 16) * 256 + rom[i + 1]

(* Words outside the documented instruction set.                           *)
Unassigned(op) ==
    \/ Family(op) = 0 /\ op \notin {224, 238}
    \/ Family(op) = 8 /\ Field_n(op) \in (8 .. 13) \cup {15}
    \/ Family(op) = 14 /\ Field_kk(op) \notin {158, 161}
    \/ Family(op) = 15 /\ Field_kk(op) \notin {7, 10, 21, 24, 30, 41, 51, 85, 101}

----------------------------------------------------------------------------
(* C21: when a sprite is drawn twice in a row at the same place, the       *)
(* framebuffer after the second draw is what it was before the first (here *)
(* the picture of the sprite drawn before them), and the second draw       *)
(* reports a collision if the first set at least one pixel.                *)
C21_RedrawRestores ==
    (RedrawRunning /\ ~fault /\ Fetched /\ IsDRW(opcode)
       /\ PC = PROGRAM_START + 14) =>
      LET x  == rom[2]
          y  == rom[4]
          a1 == RomAddr(5)
          n1 == rom[8] % 16
          a2 == RomAddr(9)
          n2 == rom[12] % 16
      IN  /\ \A p \in Pixels : Get(screen, p) = SpriteBit(p, x, y, n1, a1)
          /\ (\E p \in Pixels : /\ SpriteBit(p, x, y, n1, a1) = 0
                                /\ SpriteBit(p, x, y, n2, a2) = 1)
               => V[VF] = 1

C21_Witness ==
    /\ rom = RedrawRom(<<60, 30>>, <<0, 5>>, <<RedrawData, 3>>) /\ ~fault
    /\ IsDRW(opcode) /\ PC = PROGRAM_START + 14
    /\ V[VF] = 1 /\ Get(screen, 30 * WIDTH + 60) = 1 /\ Get(screen, 30 * WIDTH + 0) = 0

(* C22: after reset, load_rom of 6A 02 FA 29 D0 01 and three cycles, I is  *)
(* 10 and the framebuffer is 1,1,1,1 on the first four pixels of row 0 and *)
(* 0 everywhere else.                                                      *)
C22_GlyphScenario ==
    (host = "running" /\ rom = GlyphRom /\ PC = PROGRAM_START + 6) =>
       /\ ~fault
       /\ opcode = 53249
       /\ I = 10
       /\ \A p \in Pixels : Get(screen, p) = (IF p < 4 THEN 1 ELSE 0)

C22_Witness ==
    /\ rom = GlyphRom /\ opcode = 53249 /\ PC = PROGRAM_START + 6 /\ ~fault
    /\ I = 10 /\ V[10] = 2 /\ Get(screen, 3) = 1 /\ Get(screen, 4) = 0

(* C23: with I + x <= 4095, Fx55 copies V0..Vx to memory[I..I+x] and Fx65  *)
(* copies memory[I..I+x] to V0..Vx, both leaving I, the registers above Vx *)
(* and everything else as they were; so an Fx65 after an Fx55 with the     *)
(* same x and I gives V0..Vx back the values they had at the Fx55,         *)
(* whatever the registers were set to in between.                          *)
C23_RegisterFileRoundTrip ==
    [][Cycle =>
         LET x == Field_x(Current)
         IN  /\ (IsMisc(Current, 85) /\ I + x <= MEM_SIZE - 1) =>
                  /\ ~fault'
                  /\ V' = V /\ I' = I
                  /\ \A j \in Addresses :
                       Get(memory', j) =
                         IF j >= I /\ j <= I + x THEN V[j - I] ELSE Get(memory, j)
             /\ (IsMisc(Current, 101) /\ I + x <= MEM_SIZE - 1) =>
                  /\ ~fault'
                  /\ memory' = memory /\ I' = I
                  /\ \A r \in 0 .. (NUM_REGS - 1) :
                       V'[r] = IF r <= x THEN Get(memory, I + r) ELSE V[r]
             /\ (IsMisc(Current, 101) /\ I + x <= MEM_SIZE - 1 /\ RegFileRunning) =>
                  \A r \in 0 .. x :
                    V'[r] = IF r < Len(SavedValues) THEN SavedValues[r + 1] ELSE 0]_vars

C23_Witness ==
    /\ RegFileRunning /\ ~fault /\ Fetched /\ IsMisc(opcode, 101) /\ X = 1
    /\ I = MEM_SIZE - 16
    /\ V[0] = SavedValues[1] /\ V[1] = SavedValues[2] /\ V[2] = ScratchValues[3]

(* C24: for every value of Vx, Fx29 sets I to Vx * 5 and does not fault.   *)
C24_FontAddressUntruncated ==
    [][(Cycle /\ IsMisc(Current, 41)) =>
         (~fault' /\ I' = V[Field_x(Current)] * 5)]_vars

(* C25: with I <= 4093, Fx33 leaves decimal digits h, t, o of Vx at I,     *)
(* I + 1, I + 2 (100h + 10t + o = Vx) and changes no other memory cell     *)
(* and no register.                                                        *)
C25_BcdDigits ==
    [][(Cycle /\ IsMisc(Current, 51) /\ I <= MEM_SIZE - 3) =>
         LET h == Get(memory', I)
             t == Get(memory', I + 1)
             o == Get(memory', I + 2)
         IN  /\ ~fault'
             /\ {h, t, o} \subseteq 0 .. 9
             /\ 100 * h + 10 * t + o = V[Field_x(Current)]
             /\ \A j \in Addresses \ {I, I + 1, I + 2} :
                  Get(memory', j) = Get(memory, j)
             /\ UNCHANGED <<V, I, SP, stack, DT, ST>>]_vars

C25_Witness ==
    /\ Fetched /\ IsMisc(opcode, 51) /\ ~fault /\ vx = 234 /\ I = MEM_SIZE - 3
    /\ Get(memory, I) = 2 /\ Get(memory, I + 1) = 3 /\ Get(memory, I + 2) = 4

(* C26: a word outside the documented instruction set only moves PC on by  *)
(* 2 and changes nothing else.                                             *)
C26_UnassignedIsNoOp ==
    [][(Cycle /\ Unassigned(Current)) =>
         /\ ~fault'
         /\ PC' = PC + 2
         /\ UNCHANGED <<memory, V, I, SP, stack, DT, ST, screen, keys>>]_vars

(* C27: key_down(i) puts key i down and key_up(i) puts it up, neither      *)
(* touching another key; reset puts every key up; nothing else changes a   *)
(* key, so each key is as its last call left it.                           *)
C27_KeypadLastWriteWins ==
    [][/\ KeyDown => \E i \in 0 .. (NUM_KEYS - 1) :
                       /\ keys'[i]
                       /\ \A k \in (0 .. (NUM_KEYS - 1)) \ {i} : keys'[k] = keys[k]
       /\ KeyUp => \E i \in 0 .. (NUM_KEYS - 1) :
                     /\ ~keys'[i]
                     /\ \A k \in (0 .. (NUM_KEYS - 1)) \ {i} : keys'[k] = keys[k]
       /\ Reset => \A k \in 0 .. (NUM_KEYS - 1) : ~keys'[k]
       /\ keys' # keys => (KeyDown \/ KeyUp \/ Reset)]_vars

C27_Witness ==
    host = "running" /\ Fetched /\ KeysDown = {7} /\ ~fault

(* C28: every pixel is 0 or 1, and only CLS, DRW and reset change the      *)
(* framebuffer.                                                            *)
C28_PixelsAreBits ==
    [][/\ DOMAIN screen' \subseteq Pixels
       /\ \A p \in DOMAIN screen' : screen'[p] \in {0, 1}
       /\ screen' # screen =>
            (Reset \/ (Cycle /\ (Current = 224 \/ IsDRW(Current))))]_vars

C28_Witness ==
    rom = ClsRom /\ opcode = 224 /\ ~fault /\ screen = BlankScreen /\ V[VF] = 1

(* C29: a cycle changes DT only by Fx15 (DT = Vx) and ST only by Fx18      *)
(* (ST = Vx), both timers stay within 0..255, and a timer tick changes     *)
(* nothing but the timers.                                                 *)
C29_TimersIndependent ==
    [][/\ Cycle =>
            /\ DT' = (IF IsMisc(Current, 21) THEN V[Field_x(Current)] ELSE DT)
            /\ ST' = (IF IsMisc(Current, 24) THEN V[Field_x(Current)] ELSE ST)
       /\ DT' \in 0 .. 255 /\ ST' \in 0 .. 255
       /\ DecrementTimers =>
            UNCHANGED <<memory, V, I, PC, SP, stack, screen, keys>>]_vars

C29_Witness ==
    /\ Fetched /\ IsMisc(opcode, 7) /\ ~fault
    /\ V[1] = MaxTimer /\ DT = MaxTimer - 1

============================================================================
